---- MODULE Spec2Model ----
(***************************************************************************)
(* Model of placeholderPolyfill.js 1.0: a shim that emulates the           *)
(* `placeholder` attribute of input elements on browsers without it.       *)
(*                                                                         *)
(* The document is a sequence of input elements in document order; each    *)
(* element carries the DOM properties the script reads or writes.  The     *)
(* window load handler (the constructor of placeholderPolyfill) is one     *)
(* action, and so is every DOM event handler the script installs.          *)
(*                                                                         *)
(* Text values are strings.  A className is a sequence of symbols, each    *)
(* standing for a piece of the attribute's text:                           *)
(*     "P"  the eleven characters  placeholder                             *)
(*     "D"  the eleven characters  displayNone                             *)
(*     "x"  one other non-blank character                                  *)
(*     " "  one blank                                                      *)
(* Neither word overlaps itself or the other, so a substring search for    *)
(* one of the words in the text is a search for its symbol in the          *)
(* sequence.                                                               *)
(***************************************************************************)
EXTENDS Integers, Sequences, FiniteSets, TLC

\* Number of input elements of the document.
MaxInputs == 2

Inputs == 1..MaxInputs

\* document.activeElement when no input element has the focus (the body).
NoElement == 0

\* element.form of an input that belongs to no form (null).
NoForm == 0

\* The forms of the document.
FormIds == {1}

\* The placeholder texts and the texts a user types.
HintText == "hint"
UserText == "abc"
Texts == {"", UserText, HintText}

\* class attributes of the page's markup: none, and one class that
\* contains the word placeholder (my-placeholder-field).
InitClassNames == { <<>>, <<"x", "P", "x">> }

placeholderClassName == "P"
displayNoneClassName == "D"

VARIABLES
    pc,             \* "loading" before the window load event, then "ready"
    supported,      \* 'placeholder' in document.createElement('input')
    hasClassList,   \* elements of this browser have a classList
    els,            \* the input elements of the document, in document order
    decoys,         \* the text element created for each password element
    forms,          \* the expando properties and onsubmit of each form
    activeElement,  \* document.activeElement
    crashed,        \* the constructor ended with an uncaught TypeError
    logCount,       \* number of console.log calls
    installCount,   \* history: number of assignments of the script's handler
                    \* to form.onsubmit, for each form
    onsubmit0,      \* history: form.onsubmit before the script ran
    dom,            \* the input nodes of the document in document order:
                    \* i is input i and -i is the decoy of input i
    windowOnload,   \* the functions window.onload calls, in calling order
                    \* (<<>> is null)
    pageOnload,     \* history: window.onload before the script was loaded
    loadTrace,      \* history: the functions the load event called, in order
    userText,       \* history: the text the page or the user put in each field
    lastEvent,      \* history: the event handled last, the input or form it
                    \* was delivered to, and the inputs as they were before it
    submitted,      \* history: when the last event was a submit event, the
                    \* field values at the call of form.submit()
    trace           \* history: when the last event was a submit event, the
                    \* calls its handler made

vars == << pc, supported, hasClassList, els, decoys, forms, activeElement,
           crashed, logCount, installCount, onsubmit0, dom, windowOnload,
           pageOnload, loadTrace, userText, lastEvent, submitted, trace >>

-----------------------------------------------------------------------------
(* String helpers on class names.                                          *)

IsSpace(c) == c = " "

RECURSIVE TrimLeft(_)
TrimLeft(s) ==
    IF s # <<>> /\ IsSpace(Head(s)) THEN TrimLeft(Tail(s)) ELSE s

RECURSIVE TrimRight(_)
TrimRight(s) ==
    IF s # <<>> /\ IsSpace(s[Len(s)])
    THEN TrimRight(SubSeq(s, 1, Len(s) - 1))
    ELSE s

\* String.prototype.replace(/^\s+|\s+$/g, '')
Trim(s) == TrimRight(TrimLeft(s))

\* Positions where the symbol c occurs in s.
Occurrences(s, c) == { i \in 1..Len(s) : s[i] = c }

Min(S) == CHOOSE m \in S : \A n \in S : m <= n

\* String.prototype.replace(c, ''): removes the first occurrence of c.
ReplaceFirst(s, c) ==
    IF Occurrences(s, c) = {} THEN s
    ELSE LET i == Min(Occurrences(s, c))
         IN SubSeq(s, 1, i - 1) \o SubSeq(s, i + 1, Len(s))

\* Positions where (\s|^)c(\s|$) matches around the symbol at i.
TokenPositions(s, c) ==
    { i \in Occurrences(s, c) :
        /\ (i = 1 \/ IsSpace(s[i - 1]))
        /\ (i = Len(s) \/ IsSpace(s[i + 1])) }

\* String.prototype.replace(new RegExp('(\\s|^)c(\\s|$)'), ' '): the first
\* match, with the blank before and after it, becomes a single blank.
ReplaceFirstToken(s, c) ==
    IF TokenPositions(s, c) = {} THEN s
    ELSE LET i == Min(TokenPositions(s, c))
             from == IF i = 1 THEN 1 ELSE i - 1
             to == IF i = Len(s) THEN i ELSE i + 1
         IN SubSeq(s, 1, from - 1) \o <<" ">> \o SubSeq(s, to + 1, Len(s))

\* The tokens of a class attribute, in order (DOMTokenList).
RECURSIVE Tokens(_)
Tokens(s) ==
    LET t == TrimLeft(s)
        spaces == { i \in 1..Len(t) : IsSpace(t[i]) }
    IN IF t = <<>> THEN <<>>
       ELSE IF spaces = {} THEN << t >>
       ELSE << SubSeq(t, 1, Min(spaces) - 1) >>
            \o Tokens(SubSeq(t, Min(spaces) + 1, Len(t)))

\* The serialisation of a token list: tokens separated by one blank.
RECURSIVE JoinTokens(_)
JoinTokens(ts) ==
    IF ts = <<>> THEN <<>>
    ELSE IF Len(ts) = 1 THEN Head(ts)
    ELSE Head(ts) \o <<" ">> \o JoinTokens(Tail(ts))

-----------------------------------------------------------------------------
(* Class manipulation.                                                     *)

hasClass(element, className) ==
    IF hasClassList
    THEN \E k \in 1..Len(Tokens(element.className)) :
            Tokens(element.className)[k] = << className >>
    ELSE TokenPositions(element.className, className) # {}

addClass(element, className) ==
    IF hasClassList
    THEN IF hasClass(element, className) THEN element
         ELSE [element EXCEPT !.className =
                    JoinTokens(Append(Tokens(@), << className >>))]
    ELSE IF ~hasClass(element, className)
         THEN [element EXCEPT !.className = Trim(@ \o <<" ", className>>)]
         ELSE element

removeClass(element, className) ==
    LET e1 == IF hasClassList
              THEN IF hasClass(element, className)
                   THEN [element EXCEPT !.className =
                            JoinTokens(SelectSeq(Tokens(@),
                                LAMBDA t : t # << className >>))]
                   ELSE element
              ELSE IF hasClass(element, className)
                   THEN [element EXCEPT !.className =
                            ReplaceFirstToken(@, className)]
                   ELSE element
    IN [e1 EXCEPT !.className = Trim(ReplaceFirst(@, className))]

enableTextSelection(element) ==
    [element EXCEPT !.onselectstart = "null", !.onmousedown = "null"]

disableTextSelection(element) ==
    [element EXCEPT !.onselectstart = "returnFalse",
                    !.onmousedown = "returnFalse"]

activatePlaceholder(element) ==
    disableTextSelection(
        addClass([element EXCEPT !.value = element.placeholder],
                 placeholderClassName))

deactivatePlaceholder(element) ==
    enableTextSelection(
        removeClass([element EXCEPT !.value = ""], placeholderClassName))

-----------------------------------------------------------------------------
(* The per-element event handlers.                                         *)

\* An onFocus without the test of the placeholder class.
onFocus_Always(element) == deactivatePlaceholder(element)

onFocus(element) ==
    IF hasClass(element, placeholderClassName)
    THEN deactivatePlaceholder(element)
    ELSE element

\* isActive: element == document.activeElement
onClick(element, isActive) ==
    IF ~isActive THEN onFocus(element) ELSE element

\* An onBlur without the test of the value.
onBlur_Always(element) == activatePlaceholder(element)

onBlur(element) ==
    IF element.value = "" THEN activatePlaceholder(element) ELSE element

\* A beforeOnSubmit that leaves the placeholder text in the field.
beforeOnSubmit_KeepsValue(element) == element

beforeOnSubmit(element) ==
    IF hasClass(element, placeholderClassName)
    THEN [element EXCEPT !.value = ""]
    ELSE element

afterOnSubmit(element) ==
    IF hasClass(element, placeholderClassName)
    THEN [element EXCEPT !.value = element.placeholder]
    ELSE element

-----------------------------------------------------------------------------
(* The custom submit events of a form.  form.beforeOnSubmit and            *)
(* form.afterOnSubmit are chains of closures, each calling the functions   *)
(* registered before it and then its own; a chain is the sequence of the   *)
(* elements whose hook it calls, in calling order, and <<>> is a property  *)
(* that was never set.                                                     *)

\* An addBeforeOnSubmit whose closure calls the new function first.
addBeforeOnSubmit_Prepend(form, i) ==
    [form EXCEPT !.beforeOnSubmit = << i >> \o @]

addBeforeOnSubmit(form, i) ==
    [form EXCEPT !.beforeOnSubmit = Append(@, i)]

addAfterOnSubmit(form, i) ==
    [form EXCEPT !.afterOnSubmit = Append(@, i)]

\* A setCustomBeforeAndAfterOnSubmitEvents without the onSubmitIsSet test.
setCustomBeforeAndAfterOnSubmitEvents_Unguarded(form) ==
    IF form.beforeOnSubmit # <<>> /\ form.afterOnSubmit # <<>>
    THEN [form |-> [form EXCEPT !.onsubmit = "shim", !.onSubmitIsSet = TRUE],
          logged |-> IF form.onsubmit # "null" THEN 1 ELSE 0,
          installed |-> 1]
    ELSE [form |-> form, logged |-> 0, installed |-> 0]

\* The form, the number of messages written to the console and the number
\* of assignments to form.onsubmit.
setCustomBeforeAndAfterOnSubmitEvents(form) ==
    IF ~form.onSubmitIsSet /\ form.beforeOnSubmit # <<>>
                           /\ form.afterOnSubmit # <<>>
    THEN [form |-> [form EXCEPT !.onsubmit = "shim", !.onSubmitIsSet = TRUE],
          logged |-> IF form.onsubmit # "null" THEN 1 ELSE 0,
          installed |-> 1]
    ELSE [form |-> form, logged |-> 0, installed |-> 0]

-----------------------------------------------------------------------------
(* Password elements and their decoy text element.  decoys[i] is <<>> or   *)
(* the one-element sequence holding the element created for input i.       *)

onClickPassword(element, placeholderElement) ==
    [element |-> removeClass(element, displayNoneClassName),
     placeholderElement |-> addClass(placeholderElement, displayNoneClassName)]

onFocusPassword(element, placeholderElement) ==
    onClickPassword(element, placeholderElement)

onBlurPassword(element, placeholderElement) ==
    IF element.value = ""
    THEN [element |-> addClass(element, displayNoneClassName),
          placeholderElement |->
              removeClass(placeholderElement, displayNoneClassName)]
    ELSE [element |-> element, placeholderElement |-> placeholderElement]

\* document.createElement('input')
createElement ==
    [type |-> "text", className |-> <<>>, placeholder |-> "", value |-> "",
     onclick |-> "null", onfocus |-> "null",
     onselectstart |-> "null", onmousedown |-> "null"]

\* A polyfillPassword that shows the placeholder in the password element.
polyfillPassword_OnElement(s, i) ==
    [s EXCEPT !.els[i] = activatePlaceholder(@)]

\* The decoy of input i as a node of the document.
DecoyOf(i) == 0 - i

\* parentNode.insertBefore(newNode, node.nextSibling)
insertAfter(nodes, node, newNode) ==
    LET k == CHOOSE n \in 1..Len(nodes) : nodes[n] = node
    IN SubSeq(nodes, 1, k) \o << newNode >> \o SubSeq(nodes, k + 1, Len(nodes))

\* s is the page: [els, decoys, forms, crashed, logCount, installCount, dom]
\* and the functions called so far.
polyfillPassword(s, i) ==
    IF s.els[i].type = "password"
    THEN LET element == s.els[i]
             placeholderElement ==
                 activatePlaceholder(
                     [createElement EXCEPT !.type = "text",
                                           !.className = element.className,
                                           !.placeholder = element.placeholder])
         IN [s EXCEPT
                !.decoys[i] = << [placeholderElement EXCEPT
                                    !.onclick = "onClickPassword",
                                    !.onfocus = "onFocusPassword"] >>,
                !.els[i] = addClass([element EXCEPT !.onblur = "onBlurPassword"],
                                    displayNoneClassName),
                !.dom = insertAfter(@, i, DecoyOf(i))]
    ELSE s

\* Reading form.beforeOnSubmit of a null form throws a TypeError, which
\* ends the constructor.
polyfill(s, i) ==
    LET element == [activatePlaceholder(s.els[i]) EXCEPT
                        !.onclick = "onClick",
                        !.onfocus = "onFocus",
                        !.onblur = "onBlur"]
        f == element.form
    IN IF f = NoForm
       THEN [s EXCEPT !.els[i] = element, !.crashed = TRUE]
       ELSE LET r == setCustomBeforeAndAfterOnSubmitEvents(
                        addAfterOnSubmit(addBeforeOnSubmit(s.forms[f], i), i))
            IN [s EXCEPT !.els[i] = element,
                         !.forms[f] = r.form,
                         !.logCount = @ + r.logged,
                         !.installCount[f] = @ + r.installed]

\* A feature test that never finds the placeholder property.
placeholderIsSupported_Never == FALSE

placeholderIsSupported == supported

\* The elements after the loop of getElementsWithPlaceholders.
setPlaceholderProperties(elements) ==
    [i \in DOMAIN elements |->
        IF elements[i].placeholder # "" \/ elements[i].attr # ""
        THEN [elements[i] EXCEPT !.placeholder =
                 IF @ # "" THEN @ ELSE elements[i].attr]
        ELSE elements[i]]

\* The array getElementsWithPlaceholders returns, as indexes in the document.
getElementsWithPlaceholders(elements) ==
    SelectSeq([i \in DOMAIN elements |-> i],
              LAMBDA i : elements[i].placeholder # "" \/ elements[i].attr # "")

\* The constructor's loop from position iterator on.
RECURSIVE polyfillAll(_, _, _)
polyfillAll(s, list, iterator) ==
    IF iterator > Len(list) \/ s.crashed THEN s
    ELSE polyfillAll(
            IF s.els[list[iterator]].type = "password"
            THEN polyfillPassword(s, list[iterator])
            ELSE polyfill(s, list[iterator]),
            list, iterator + 1)

constructor(s) ==
    IF ~placeholderIsSupported
    THEN polyfillAll([s EXCEPT !.els = setPlaceholderProperties(s.els)],
                     getElementsWithPlaceholders(s.els), 1)
    ELSE s

-----------------------------------------------------------------------------
(* The load handler.  window.onload is a chain of closures like the submit *)
(* events: the sequence of the functions it calls, in calling order.       *)

\* An executeAfterPageLoad that forgets the handler the page had set.
executeAfterPageLoad_DropsExisting(onload, newFunction) == << newFunction >>

\* window.onload after executeAfterPageLoad(newFunction).
executeAfterPageLoad(onload, newFunction) == Append(onload, newFunction)

\* window.onload(): the functions of the chain from position k on.  A
\* handler of the page changes nothing the script reads; an uncaught
\* exception ends the call.
RECURSIVE callOnload(_, _, _)
callOnload(s, chain, k) ==
    IF k > Len(chain) \/ s.crashed THEN s
    ELSE callOnload(
            IF chain[k] = "placeholderPolyfill"
            THEN constructor([s EXCEPT !.called = Append(@, chain[k])])
            ELSE [s EXCEPT !.called = Append(@, chain[k])],
            chain, k + 1)

-----------------------------------------------------------------------------
(* The onsubmit handler the script installs on a form.                     *)

\* form.beforeOnSubmit() or form.afterOnSubmit(): the hooks of the chain
\* from position k on, applied to the elements.
RECURSIVE callChain(_, _, _, _)
callChain(elements, chain, k, name) ==
    IF k > Len(chain) THEN elements
    ELSE callChain(
            [elements EXCEPT ![chain[k]] =
                IF name = "beforeOnSubmit" THEN beforeOnSubmit(@)
                                           ELSE afterOnSubmit(@)],
            chain, k + 1, name)

\* The calls the handler makes, in order.
callsOf(chain, name) ==
    [k \in 1..Len(chain) |-> [call |-> name, arg |-> chain[k]]]

\* The values a submission of form f sends: those of the inputs of the form.
\* The decoy of a password element has no name and is not sent.
formData(elements, f) ==
    [i \in {j \in DOMAIN elements : elements[j].form = f} |-> elements[i].value]

onsubmit(elements, f) ==
    LET form == forms[f]
        before == callChain(elements, form.beforeOnSubmit, 1, "beforeOnSubmit")
        after == callChain(before, form.afterOnSubmit, 1, "afterOnSubmit")
    IN [els |-> after,
        submitted |-> formData(before, f),
        trace |-> callsOf(form.beforeOnSubmit, "beforeOnSubmit")
                  \o << [call |-> "submit", arg |-> f] >>
                  \o callsOf(form.afterOnSubmit, "afterOnSubmit")
                  \o << [call |-> "return false", arg |-> f] >>]

-----------------------------------------------------------------------------
(* The page before the load event.                                         *)

\* The markup of an input element.  The class attribute varies on the text
\* inputs that carry a placeholder, the only ones whose classes the script
\* removes text from; an input without a placeholder is one plain text input.
Markup(types, attrs, values, classNames, formsOf) ==
    [type : types, attr : attrs, placeholder : {""}, value : values,
     className : classNames, form : formsOf,
     onclick : {"null"}, onfocus : {"null"}, onblur : {"null"},
     onselectstart : {"null"}, onmousedown : {"null"}]

InitElements ==
    Markup({"text"}, {HintText}, {"", UserText}, InitClassNames,
           FormIds \cup {NoForm})
    \cup Markup({"password"}, {HintText}, {"", UserText}, {<<>>},
                FormIds \cup {NoForm})
    \cup Markup({"text"}, {""}, {""}, {<<>>}, FormIds)

InitForms ==
    [beforeOnSubmit : {<<>>}, afterOnSubmit : {<<>>},
     onsubmit : {"null", "page"}, onSubmitIsSet : {FALSE}]

\* The page when the script file is about to run: the markup is parsed and
\* the page may have set window.onload.
InitPage ==
    /\ supported \in BOOLEAN
    /\ hasClassList \in BOOLEAN
    /\ els \in [Inputs -> InitElements]
    /\ decoys = [i \in Inputs |-> <<>>]
    /\ forms \in [FormIds -> InitForms]
    /\ activeElement \in Inputs \cup {NoElement}
    /\ crashed = FALSE
    /\ logCount = 0
    /\ installCount = [f \in FormIds |-> 0]
    /\ onsubmit0 = [f \in FormIds |-> forms[f].onsubmit]
    /\ userText = [i \in Inputs |-> els[i].value]
    /\ dom = [i \in Inputs |-> i]
    /\ loadTrace = <<>>
    /\ lastEvent = [op |-> "none", target |-> 0, before |-> els]
    /\ submitted = <<>>
    /\ trace = <<>>

\* The page after the script file ran, on a page that had set no load
\* handler: executeAfterPageLoad(placeholderPolyfill) at line 405.
Init ==
    /\ pc = "loading"
    /\ pageOnload = "null"
    /\ windowOnload = executeAfterPageLoad(<<>>, "placeholderPolyfill")
    /\ InitPage

-----------------------------------------------------------------------------
(* The events.                                                             *)

Visible(element) == ~hasClass(element, displayNoneClassName)

\* The blur event of element j, when focus leaves it.
blurEvent(elements, decoyElements, j) ==
    IF j = NoElement THEN [els |-> elements, decoys |-> decoyElements]
    ELSE IF elements[j].onblur = "onBlur"
    THEN [els |-> [elements EXCEPT ![j] = onBlur(@)],
          decoys |-> decoyElements]
    ELSE IF elements[j].onblur = "onBlurPassword"
    THEN LET r == onBlurPassword(elements[j], decoyElements[j][1])
         IN [els |-> [elements EXCEPT ![j] = r.element],
             decoys |-> [decoyElements EXCEPT ![j] = << r.placeholderElement >>]]
    ELSE [els |-> elements, decoys |-> decoyElements]

\* The load event: window.onload().
Load ==
    /\ pc = "loading"
    /\ LET s == callOnload([els |-> els, decoys |-> decoys, forms |-> forms,
                             crashed |-> crashed, logCount |-> logCount,
                             installCount |-> installCount, dom |-> dom,
                             called |-> <<>>],
                            windowOnload, 1)
       IN /\ els' = s.els
          /\ decoys' = s.decoys
          /\ forms' = s.forms
          /\ crashed' = s.crashed
          /\ logCount' = s.logCount
          /\ installCount' = s.installCount
          /\ dom' = s.dom
          /\ loadTrace' = s.called
    /\ pc' = "ready"
    /\ lastEvent' = [op |-> "load", target |-> 0, before |-> els]
    /\ UNCHANGED << supported, hasClassList, activeElement, onsubmit0,
                    windowOnload, pageOnload, userText, submitted, trace >>

\* A click event delivered to input i.
Click(i) ==
    /\ pc = "ready"
    /\ Visible(els[i])
    /\ els' = IF els[i].onclick = "onClick"
              THEN [els EXCEPT ![i] = onClick(@, i = activeElement)]
              ELSE els
    /\ lastEvent' = [op |-> "click", target |-> i, before |-> els]
    /\ submitted' = <<>>
    /\ trace' = <<>>
    /\ UNCHANGED << pc, supported, hasClassList, decoys, forms, activeElement,
                    crashed, logCount, installCount, onsubmit0, dom,
                    windowOnload, pageOnload, loadTrace, userText >>

\* Input i receives the focus.
Focus(i) ==
    /\ pc = "ready"
    /\ activeElement = NoElement
    /\ Visible(els[i])
    /\ activeElement' = i
    /\ els' = IF els[i].onfocus = "onFocus"
              THEN [els EXCEPT ![i] = onFocus(@)]
              ELSE els
    /\ lastEvent' = [op |-> "focus", target |-> i, before |-> els]
    /\ submitted' = <<>>
    /\ trace' = <<>>
    /\ UNCHANGED << pc, supported, hasClassList, decoys, forms,
                    crashed, logCount, installCount, onsubmit0, dom,
                    windowOnload, pageOnload, loadTrace, userText >>

\* Input i loses the focus.
Blur(i) ==
    /\ pc = "ready"
    /\ activeElement = i
    /\ activeElement' = NoElement
    /\ LET r == blurEvent(els, decoys, i)
       IN els' = r.els /\ decoys' = r.decoys
    /\ lastEvent' = [op |-> "blur", target |-> i, before |-> els]
    /\ submitted' = <<>>
    /\ trace' = <<>>
    /\ UNCHANGED << pc, supported, hasClassList, forms,
                    crashed, logCount, installCount, onsubmit0, dom,
                    windowOnload, pageOnload, loadTrace, userText >>

\* The user edits the text of the focused input i; t is the new text.
Type(i, t) ==
    /\ pc = "ready"
    /\ activeElement = i
    /\ Visible(els[i])
    /\ els' = [els EXCEPT ![i].value = t]
    /\ userText' = [userText EXCEPT ![i] = t]
    /\ lastEvent' = [op |-> "type", target |-> i, before |-> els]
    /\ submitted' = <<>>
    /\ trace' = <<>>
    /\ UNCHANGED << pc, supported, hasClassList, decoys, forms, activeElement,
                    crashed, logCount, installCount, onsubmit0, dom,
                    windowOnload, pageOnload, loadTrace >>

\* The handler of the decoy of password i, then element.focus(): the
\* element that had the focus gets its blur event.
decoyEvent(i) ==
    LET r == onClickPassword(els[i], decoys[i][1])
        b == blurEvent([els EXCEPT ![i] = r.element],
                       [decoys EXCEPT ![i] = << r.placeholderElement >>],
                       IF activeElement = i THEN NoElement ELSE activeElement)
    IN /\ els' = b.els
       /\ decoys' = b.decoys
       /\ activeElement' = i

\* A click event delivered to the decoy of password i.
ClickDecoy(i) ==
    /\ pc = "ready"
    /\ decoys[i] # <<>>
    /\ Visible(decoys[i][1])
    /\ decoyEvent(i)
    /\ lastEvent' = [op |-> "clickDecoy", target |-> i, before |-> els]
    /\ submitted' = <<>>
    /\ trace' = <<>>
    /\ UNCHANGED << pc, supported, hasClassList, forms,
                    crashed, logCount, installCount, onsubmit0, dom,
                    windowOnload, pageOnload, loadTrace, userText >>

\* The decoy of password i receives the focus.
FocusDecoy(i) ==
    /\ pc = "ready"
    /\ decoys[i] # <<>>
    /\ Visible(decoys[i][1])
    /\ activeElement = NoElement
    /\ decoyEvent(i)
    /\ lastEvent' = [op |-> "focusDecoy", target |-> i, before |-> els]
    /\ submitted' = <<>>
    /\ trace' = <<>>
    /\ UNCHANGED << pc, supported, hasClassList, forms,
                    crashed, logCount, installCount, onsubmit0, dom,
                    windowOnload, pageOnload, loadTrace, userText >>

\* A submit event of form f, handled by the installed handler.
Submit(f) ==
    /\ pc = "ready"
    /\ forms[f].onsubmit = "shim"
    /\ LET r == onsubmit(els, f)
       IN /\ els' = r.els
          /\ submitted' = << r.submitted >>
          /\ trace' = r.trace
    /\ lastEvent' = [op |-> "submit", target |-> f, before |-> els]
    /\ UNCHANGED << pc, supported, hasClassList, decoys, forms, activeElement,
                    crashed, logCount, installCount, onsubmit0, dom,
                    windowOnload, pageOnload, loadTrace, userText >>

Next ==
    \/ Load
    \/ \E i \in Inputs : Click(i)
    \/ \E i \in Inputs : Focus(i)
    \/ \E i \in Inputs : Blur(i)
    \/ \E i \in Inputs, t \in Texts : Type(i, t)
    \/ \E i \in Inputs : ClickDecoy(i)
    \/ \E i \in Inputs : FocusDecoy(i)
    \/ \E f \in FormIds : Submit(f)

Spec == Init /\ [][Next]_vars

\* The script file is about to run on a page that may have set a load
\* handler of its own.
InitScript ==
    /\ pc = "script"
    /\ pageOnload \in {"null", "page"}
    /\ windowOnload = IF pageOnload = "null" THEN <<>> ELSE << pageOnload >>
    /\ InitPage

\* The script file runs: executeAfterPageLoad(placeholderPolyfill).
RunScript ==
    /\ pc = "script"
    /\ pc' = "loading"
    /\ windowOnload' = executeAfterPageLoad(windowOnload, "placeholderPolyfill")
    /\ lastEvent' = [op |-> "script", target |-> 0, before |-> els]
    /\ UNCHANGED << supported, hasClassList, els, decoys, forms, activeElement,
                    crashed, logCount, installCount, onsubmit0, dom,
                    pageOnload, loadTrace, userText, submitted, trace >>

NextLoad ==
    \/ RunScript
    \/ Next

SpecLoad == InitScript /\ [][NextLoad]_vars

-----------------------------------------------------------------------------
(* Properties.                                                             *)

\* Input i was polyfilled by polyfill(): it is a non-password field with the
\* script's handlers.
Polyfilled(i) == els[i].onclick = "onClick"

ShowsPlaceholder(element) ==
    /\ element.value = element.placeholder
    /\ hasClass(element, placeholderClassName)

\* C1 as stated: when the installed onsubmit handler calls form.submit(), no
\* field of the submitted data has a value equal to its placeholder text.
C1_NoFieldEqualsPlaceholder ==
    submitted # <<>> =>
        \A i \in DOMAIN submitted[1] :
            els[i].placeholder # "" => submitted[1][i] # els[i].placeholder

\* C1 amended: when the installed onsubmit handler calls form.submit(), every
\* polyfilled field that shows the placeholder (carries the placeholder
\* class) is sent with the empty value, and a field of the submitted data has
\* a value equal to its placeholder text only if the user typed that text.
C1_PlaceholderNotSubmitted ==
    submitted # <<>> =>
        \A i \in DOMAIN submitted[1] :
            /\ (Polyfilled(i) /\ hasClass(els[i], placeholderClassName))
                    => submitted[1][i] = ""
            /\ (els[i].placeholder # "" /\ submitted[1][i] = els[i].placeholder)
                    => userText[i] = submitted[1][i]

\* A submission of a form one of whose fields shows the placeholder.
C1_Witness ==
    /\ submitted # <<>>
    /\ \E i \in DOMAIN submitted[1] :
            /\ Polyfilled(i)
            /\ ShowsPlaceholder(els[i])
            /\ ShowsPlaceholder(lastEvent.before[i])
            /\ submitted[1][i] = ""

\* C2: the value of a password input is always the text the page or the user
\* put in it, and once the input has its decoy the placeholder text is the
\* decoy's value.
C2_PasswordValueUntouched ==
    \A i \in Inputs :
        els[i].type = "password" =>
            /\ els[i].value = userText[i]
            /\ decoys[i] # <<>> =>
                    /\ decoys[i][1].value = els[i].placeholder
                    /\ decoys[i][1].type = "text"

\* A password input with a decoy, after the user typed in it and left it.
C2_Witness ==
    \E i \in Inputs :
        /\ els[i].type = "password"
        /\ decoys[i] # <<>>
        /\ lastEvent.op = "blur" /\ lastEvent.target = i
        /\ els[i].value = UserText

\* C3 as stated: a polyfilled non-password field that does not have the
\* focus and holds no user text shows the placeholder.
C3_EmptyUnfocusedShowsPlaceholder ==
    pc = "ready" =>
        \A i \in Inputs :
            (Polyfilled(i) /\ activeElement # i /\ userText[i] = "")
                => ShowsPlaceholder(els[i])

\* C4 as stated: a text field carries the placeholder, and a password field
\* is hidden behind its decoy, only if the text the page or the user put in
\* the field is empty.
C4_PlaceholderOnlyWhenEmpty ==
    pc = "ready" =>
        \A i \in Inputs :
            /\ (Polyfilled(i) /\ hasClass(els[i], placeholderClassName))
                    => userText[i] = ""
            /\ (decoys[i] # <<>> /\ ~Visible(els[i])) => userText[i] = ""

\* C5 as stated: without native support, after initialisation every input
\* with a non-empty placeholder attribute is polyfilled: a non-password field
\* has its three handlers and, in a form, its two submit hooks; a password
\* field has its decoy.
C5_EveryPlaceholderPolyfilled ==
    (pc = "ready" /\ ~supported) =>
        \A i \in Inputs :
            els[i].attr # "" =>
                IF els[i].type = "password"
                THEN decoys[i] # <<>>
                ELSE /\ els[i].onclick = "onClick"
                     /\ els[i].onfocus = "onFocus"
                     /\ els[i].onblur = "onBlur"
                     /\ els[i].form # NoForm =>
                            /\ \E k \in 1..Len(forms[els[i].form].beforeOnSubmit) :
                                    forms[els[i].form].beforeOnSubmit[k] = i
                            /\ \E k \in 1..Len(forms[els[i].form].afterOnSubmit) :
                                    forms[els[i].form].afterOnSubmit[k] = i

\* A field of the script's as the last event found it.
Before(i) == lastEvent.before[i]

SelectionEnabled(element) ==
    element.onselectstart = "null" /\ element.onmousedown = "null"

SelectionDisabled(element) ==
    element.onselectstart = "returnFalse" /\ element.onmousedown = "returnFalse"

\* C6: after a focus event on a polyfilled field that shows the placeholder,
\* the field's value is empty, the placeholder class is removed and text
\* selection is enabled; a focus or click event on a polyfilled field
\* without the placeholder class leaves the field as it was.
C6_FocusClearsPlaceholder ==
    \A i \in Inputs :
        (Polyfilled(i) /\ lastEvent.target = i) =>
            /\ (lastEvent.op = "focus"
                    /\ hasClass(Before(i), placeholderClassName))
                  => /\ els[i].value = ""
                     /\ ~hasClass(els[i], placeholderClassName)
                     /\ SelectionEnabled(els[i])
            /\ (lastEvent.op \in {"focus", "click"}
                    /\ ~hasClass(Before(i), placeholderClassName))
                  => els[i] = Before(i)

\* A focus event on a field that showed the placeholder.
C6_Witness ==
    \E i \in Inputs :
        /\ Polyfilled(i)
        /\ lastEvent.op = "focus" /\ lastEvent.target = i
        /\ ShowsPlaceholder(Before(i))
        /\ els[i].value = ""

\* C7: after a blur event on a polyfilled non-password field whose value is
\* empty, the field shows the placeholder and text selection is disabled;
\* after a blur event on a field whose value is not empty, its value and
\* classes are unchanged.
C7_BlurRestoresPlaceholder ==
    \A i \in Inputs :
        (Polyfilled(i) /\ lastEvent.op = "blur" /\ lastEvent.target = i) =>
            IF Before(i).value = ""
            THEN /\ ShowsPlaceholder(els[i])
                 /\ SelectionDisabled(els[i])
            ELSE /\ els[i].value = Before(i).value
                 /\ els[i].className = Before(i).className

\* A blur event on an empty field that did not show the placeholder.
C7_Witness ==
    \E i \in Inputs :
        /\ Polyfilled(i)
        /\ lastEvent.op = "blur" /\ lastEvent.target = i
        /\ Before(i).value = ""
        /\ ~hasClass(Before(i), placeholderClassName)
        /\ ShowsPlaceholder(els[i])

\* C8: with native support, running placeholderPolyfill changes no input
\* element, creates no decoy and sets no beforeOnSubmit, afterOnSubmit,
\* onsubmit or onSubmitIsSet on a form.
C8_BypassedWhenSupported ==
    (supported /\ pc = "ready") =>
        /\ lastEvent.op = "load" => els = lastEvent.before
        /\ \A i \in Inputs :
                /\ decoys[i] = <<>>
                /\ els[i].placeholder = ""
                /\ els[i].onclick = "null"
                /\ els[i].onfocus = "null"
                /\ els[i].onblur = "null"
                /\ SelectionEnabled(els[i])
        /\ \A f \in FormIds :
                /\ forms[f].beforeOnSubmit = <<>>
                /\ forms[f].afterOnSubmit = <<>>
                /\ forms[f].onsubmit # "shim"
                /\ ~forms[f].onSubmitIsSet
        /\ ~crashed /\ logCount = 0

\* The load event on a browser with native support and a page with a
\* placeholder attribute.
C8_Witness ==
    /\ supported
    /\ lastEvent.op = "load"
    /\ \E i \in Inputs : els[i].attr # ""

\* The polyfilled fields of form f, in document order: the order in which
\* the constructor registered them.
fieldsOf(f) ==
    SelectSeq([i \in Inputs |-> i],
              LAMBDA i : Polyfilled(i) /\ els[i].form = f)

\* C9: a submit event handled by the installed handler runs the
\* beforeOnSubmit hook of every polyfilled field of the form once and in
\* registration order, then calls form.submit() once, then runs the
\* afterOnSubmit hook of every field once and in registration order, and
\* returns false.
C9_SubmitOrder ==
    lastEvent.op = "submit" =>
        LET f == lastEvent.target
        IN trace = callsOf(fieldsOf(f), "beforeOnSubmit")
                   \o << [call |-> "submit", arg |-> f] >>
                   \o callsOf(fieldsOf(f), "afterOnSubmit")
                   \o << [call |-> "return false", arg |-> f] >>

\* A submit event of a form with two polyfilled fields.
C9_Witness ==
    /\ lastEvent.op = "submit"
    /\ Len(fieldsOf(lastEvent.target)) >= 2
    /\ Len(trace) >= 6

\* C10 as stated: once the onsubmit handler has returned, every polyfilled
\* field of the form has the value and the classes it had just before the
\* submit event.
C10_SubmitRoundTrip ==
    lastEvent.op = "submit" =>
        \A i \in Inputs :
            (Polyfilled(i) /\ els[i].form = lastEvent.target) =>
                /\ els[i].value = Before(i).value
                /\ els[i].className = Before(i).className

\* C11: for each form the script assigns its onsubmit handler once if the
\* form has a polyfilled field and never otherwise, however many polyfilled
\* fields the form has; the console warning is written once for a form that
\* had an onsubmit handler before its first field was polyfilled, and never
\* for another form.
C11_HandlerInstalledOnce ==
    (pc = "ready" /\ ~supported) =>
        /\ \A f \in FormIds :
                installCount[f] = IF Len(fieldsOf(f)) >= 1 THEN 1 ELSE 0
        /\ logCount = Cardinality({ f \in FormIds :
                            Len(fieldsOf(f)) >= 1 /\ onsubmit0[f] # "null" })

\* A form with an onsubmit handler of the page and two polyfilled fields,
\* after initialisation.
C11_Witness ==
    \E f \in FormIds :
        /\ pc = "ready"
        /\ Len(fieldsOf(f)) >= 2
        /\ onsubmit0[f] = "page"
        /\ forms[f].onsubmit = "shim"
        /\ installCount[f] = 1
        /\ logCount = 1

\* C12 as stated: a polyfilled non-password field carries the placeholder
\* class if and only if text selection is disabled on it, and whenever it
\* carries the class its value equals its placeholder text.
C12_ClassIsFaithfulFlag ==
    pc = "ready" =>
        \A i \in Inputs :
            Polyfilled(i) =>
                /\ hasClass(els[i], placeholderClassName)
                        <=> SelectionDisabled(els[i])
                /\ ~hasClass(els[i], placeholderClassName)
                        <=> SelectionEnabled(els[i])
                /\ hasClass(els[i], placeholderClassName)
                        => els[i].value = els[i].placeholder

\* Input i is a password field with its decoy.
HasDecoy(i) == els[i].type = "password" /\ decoys[i] # <<>>

\* C13 as stated: for every polyfilled password field, exactly one of the
\* password input and its decoy carries the displayNone class; after a click
\* or focus on the decoy the password input is the visible one, and after a
\* blur of the password input the decoy is the visible one if and only if
\* the password value is empty.
C13_OneOfPairVisible ==
    \A i \in Inputs :
        HasDecoy(i) =>
            /\ Visible(els[i]) <=> ~Visible(decoys[i][1])
            /\ (lastEvent.op \in {"clickDecoy", "focusDecoy"}
                    /\ lastEvent.target = i) => Visible(els[i])
            /\ (lastEvent.op = "blur" /\ lastEvent.target = i) =>
                    (Visible(decoys[i][1]) <=> els[i].value = "")

\* C14 as stated: a polyfilled non-password field that is
\* document.activeElement does not carry the placeholder class, and its
\* value is what the user typed (empty when nothing was typed).
C14_PlaceholderNeverEditable ==
    pc = "ready" =>
        \A i \in Inputs :
            (Polyfilled(i) /\ activeElement = i) =>
                /\ ~hasClass(els[i], placeholderClassName)
                /\ els[i].value \in {"", userText[i]}

-----------------------------------------------------------------------------
(* addClass and removeClass on their own: the calls applied to one element *)
(* whose class attribute is any text of at most MaxClassLen symbols.       *)

\* Length of the class attributes tried.
MaxClassLen == 3

ClassSymbols == {"P", "D", "x", " "}

ClassTexts == UNION { [1..n -> ClassSymbols] : n \in 0..MaxClassLen }

\* The class names the script adds and removes.
ClassNames == {placeholderClassName, displayNoneClassName}

PlainElement ==
    [type |-> "text", attr |-> "", placeholder |-> "", value |-> "",
     className |-> <<>>, form |-> NoForm,
     onclick |-> "null", onfocus |-> "null", onblur |-> "null",
     onselectstart |-> "null", onmousedown |-> "null"]

InitClass ==
    /\ pc = "classes"
    /\ supported = FALSE
    /\ hasClassList \in BOOLEAN
    /\ \E text \in ClassTexts :
            els = [i \in Inputs |->
                      IF i = 1 THEN [PlainElement EXCEPT !.className = text]
                               ELSE PlainElement]
    /\ decoys = [i \in Inputs |-> <<>>]
    /\ forms = [f \in FormIds |->
                   [beforeOnSubmit |-> <<>>, afterOnSubmit |-> <<>>,
                    onsubmit |-> "null", onSubmitIsSet |-> FALSE]]
    /\ activeElement = NoElement
    /\ crashed = FALSE
    /\ logCount = 0
    /\ installCount = [f \in FormIds |-> 0]
    /\ onsubmit0 = [f \in FormIds |-> "null"]
    /\ dom = [i \in Inputs |-> i]
    /\ windowOnload = <<>>
    /\ pageOnload = "null"
    /\ loadTrace = <<>>
    /\ userText = [i \in Inputs |-> ""]
    /\ lastEvent = [op |-> "none", target |-> 1, before |-> els,
                    className |-> placeholderClassName]
    /\ submitted = <<>>
    /\ trace = <<>>

\* The variables a call on the element leaves alone.
ClassFrame ==
    UNCHANGED << pc, supported, hasClassList, decoys, forms, activeElement,
                 crashed, logCount, installCount, onsubmit0, dom,
                    windowOnload, pageOnload, loadTrace, userText,
                 submitted, trace >>

\* addClass(element, className)
AddClass(className) ==
    /\ pc = "classes"
    /\ els' = [els EXCEPT ![1] = addClass(@, className)]
    /\ lastEvent' = [op |-> "addClass", target |-> 1, before |-> els,
                     className |-> className]
    /\ ClassFrame

\* removeClass(element, className)
RemoveClass(className) ==
    /\ pc = "classes"
    /\ els' = [els EXCEPT ![1] = removeClass(@, className)]
    /\ lastEvent' = [op |-> "removeClass", target |-> 1, before |-> els,
                     className |-> className]
    /\ ClassFrame

\* addClass(element, className); removeClass(element, className)
AddThenRemoveClass(className) ==
    /\ pc = "classes"
    /\ els' = [els EXCEPT ![1] =
                  removeClass(addClass(@, className), className)]
    /\ lastEvent' = [op |-> "addClass;removeClass", target |-> 1,
                     before |-> els, className |-> className]
    /\ ClassFrame

NextClass ==
    \/ \E className \in ClassNames : AddClass(className)
    \/ \E className \in ClassNames : RemoveClass(className)
    \/ \E className \in ClassNames : AddThenRemoveClass(className)

SpecClass == InitClass /\ [][NextClass]_vars

\* The class names of a class attribute: its blank-separated words.
ClassSet(text) == { Tokens(text)[k] : k \in 1..Len(Tokens(text)) }

\* C15 as stated: removeClass(element, c) leaves the element without the
\* class c and with every other class name it had, unchanged; addClass
\* followed by removeClass on an element that did not have the class c
\* restores its set of classes.
C15_RemoveOnlyThatClass ==
    LET c == << lastEvent.className >>
        old == ClassSet(Before(1).className)
        new == ClassSet(els[1].className)
    IN /\ lastEvent.op = "removeClass" => new = old \ {c}
       /\ (lastEvent.op = "addClass;removeClass" /\ c \notin old) => new = old

\* The number of times node n occurs in the document.
CountOf(n) == Cardinality({ k \in 1..Len(dom) : dom[k] = n })

\* C16 as stated: after initialisation each password field with a
\* placeholder has exactly one decoy text input, inserted immediately after
\* it; no other node was inserted, and no decoy is polyfilled or given a
\* decoy of its own.
C16_OneDecoyPerPassword ==
    (pc = "ready" /\ ~supported) =>
        /\ \A i \in Inputs :
                IF els[i].type = "password" /\ els[i].attr # ""
                THEN /\ decoys[i] # <<>>
                     /\ CountOf(DecoyOf(i)) = 1
                     /\ \E k \in 1..(Len(dom) - 1) :
                            dom[k] = i /\ dom[k + 1] = DecoyOf(i)
                     /\ decoys[i][1].type = "text"
                     /\ decoys[i][1].onclick = "onClickPassword"
                     /\ decoys[i][1].onfocus = "onFocusPassword"
                ELSE decoys[i] = <<>> /\ CountOf(DecoyOf(i)) = 0
        /\ \A i \in Inputs : CountOf(i) = 1
        /\ Len(dom) = MaxInputs + Cardinality({ i \in Inputs : decoys[i] # <<>> })

====
